---------------------------- MODULE Spec2Model ----------------------------
(***************************************************************************)
(* A model of charenko_project/final.py: the per-file loop of main, the    *)
(* thread-pool dispatch and completion drain of                            *)
(* parallel_process_texts_in_threads, the section segmenter                *)
(* extract_text_beneath_duplicates and the correlation filter              *)
(* summarize_climate_insurance_correlation.                                *)
(***************************************************************************)
EXTENDS Integers, Sequences, FiniteSets, TLC

(***************************************************************************)
(* Bounds of the model and constants of the program.                       *)
(***************************************************************************)
MaxDocs == 2

MaxSections == 3

MAX_WORKERS == 4

MaxDocLen == 6

MaxTitles == 2

MaxTextLen == 5

\* summarize_text: len(text) < 50
MinSummarizeLen == 50

max_chunk_size == 2048

VARIABLES
    pc,               \* position of the main thread
    doc,              \* number of .txt files whose batch has been started
    n,                \* len(extracted_texts) of the current batch
    submitted,        \* number of executor.submit calls made so far
    future_to_text,   \* state of each future of the current batch
    pending,          \* as_completed: futures not yet yielded
    waiterOn,         \* as_completed: the waiter is installed on the futures
    finished_futures, \* waiter.finished_futures, in order of completion
    finished,         \* as_completed: the list being yielded (popped at its end)
    deadline,         \* "unset", "armed" (end_time computed) or "elapsed"
    rows,             \* futures whose row was appended to the CSV in this batch
    notices,          \* "Time limit exceeded" warnings logged in this batch
    stale,            \* unfinished jobs of executors of earlier batches
    completed,        \* history: futures of the batch in order of completion
    early,            \* history: futures already finished when the drain started
    openAtDeadline,   \* history: futures unfinished at the instant the deadline elapsed
    sinkFailed,       \* history: futures whose CSV append raised
    abandoned,        \* history: an earlier batch timed out with a job unfinished
    tpc,              \* position of the text functions ("off" under Spec)
    content,          \* extract_text_beneath_duplicates: the file's text
    titles,           \* extract_text_beneath_duplicates: the titles handed in
    extracted_texts,  \* extract_text_beneath_duplicates: the sections returned
    extracted_text,   \* one section's trimmed span of the file
    text_data,        \* the text of the tuple handed to the job
    correlation       \* the job's correlation summary and its summarizer calls

dvars == <<pc, doc, n, submitted, future_to_text, pending, waiterOn,
           finished_futures, finished, deadline, rows, notices, stale,
           completed, early, openAtDeadline, sinkFailed, abandoned>>

tvars == <<tpc, content, titles, extracted_texts, extracted_text, text_data,
           correlation>>

vars == <<dvars, tvars>>

Jobs == 1..MaxSections

Reverse(s) == [i \in 1..Len(s) |-> s[Len(s) + 1 - i]]

\* list(set): the sequences that enumerate a set once each, in any order
Perms(S) ==
    {p \in [1..Cardinality(S) -> S] : \A i, j \in 1..Cardinality(S) : p[i] = p[j] => i = j}

Done(j) == future_to_text[j] \in {"ok", "err"}

Unfinished == {j \in Jobs : future_to_text[j] \in {"queued", "running"}}

Running == {j \in Jobs : future_to_text[j] = "running"}

Queued == {j \in Jobs : future_to_text[j] = "queued"}

DispatcherInit ==
    /\ pc = "main"
    /\ doc = 0
    /\ n = 0
    /\ submitted = 0
    /\ future_to_text = [j \in Jobs |-> "none"]
    /\ pending = {}
    /\ waiterOn = FALSE
    /\ finished_futures = <<>>
    /\ finished = <<>>
    /\ deadline = "unset"
    /\ rows = <<>>
    /\ notices = 0
    /\ stale = 0
    /\ completed = <<>>
    /\ early = {}
    /\ openAtDeadline = {}
    /\ sinkFailed = {}
    /\ abandoned = FALSE

TextIdle ==
    /\ tpc = "off"
    /\ content = <<>>
    /\ titles = <<>>
    /\ extracted_texts = <<>>
    /\ extracted_text = <<>>
    /\ text_data = <<>>
    /\ correlation = [value |-> "none", calls |-> 0]

Init == DispatcherInit /\ TextIdle

(***************************************************************************)
(* main: the per-file loop.                                                *)
(***************************************************************************)
\* One iteration of the loop over the folder: the file's sections are
\* extracted and parallel_process_texts_in_threads is entered, which creates
\* a fresh executor and an empty future_to_text.
NextFile(k) ==
    /\ pc \in {"main", "returned"}
    /\ doc < MaxDocs
    /\ pc' = "submit"
    /\ doc' = doc + 1
    /\ n' = k
    /\ submitted' = 0
    /\ future_to_text' = [j \in Jobs |-> "none"]
    /\ pending' = {}
    /\ waiterOn' = FALSE
    /\ finished_futures' = <<>>
    /\ finished' = <<>>
    /\ deadline' = "unset"
    /\ rows' = <<>>
    /\ notices' = 0
    /\ completed' = <<>>
    /\ early' = {}
    /\ openAtDeadline' = {}
    /\ sinkFailed' = {}
    /\ UNCHANGED tvars
    /\ UNCHANGED <<stale, abandoned>>

\* The folder holds no further file: "All files processed successfully."
AllFilesProcessed ==
    /\ pc \in {"main", "returned"}
    /\ pc' = "exit"
    /\ UNCHANGED tvars
    /\ UNCHANGED <<doc, n, submitted, future_to_text, pending, waiterOn,
                   finished_futures, finished, deadline, rows, notices, stale,
                   completed, early, openAtDeadline, sinkFailed, abandoned>>

(***************************************************************************)
(* parallel_process_texts_in_threads: submission.                          *)
(***************************************************************************)
Submit ==
    /\ pc = "submit"
    /\ submitted < n
    /\ submitted' = submitted + 1
    /\ future_to_text' = [future_to_text EXCEPT ![submitted + 1] = "queued"]
    /\ UNCHANGED tvars
    /\ UNCHANGED <<pc, doc, n, pending, waiterOn, finished_futures, finished,
                   deadline, rows, notices, stale, completed, early,
                   openAtDeadline, sinkFailed, abandoned>>

(***************************************************************************)
(* The worker threads of the executor.                                     *)
(***************************************************************************)
\* A worker takes the oldest queued work item; at most MAX_WORKERS run.
JobStart(j) ==
    /\ future_to_text[j] = "queued"
    /\ \A i \in Queued : j <= i
    /\ Cardinality(Running) < MAX_WORKERS
    /\ future_to_text' = [future_to_text EXCEPT ![j] = "running"]
    /\ UNCHANGED tvars
    /\ UNCHANGED <<pc, doc, n, submitted, pending, waiterOn, finished_futures,
                   finished, deadline, rows, notices, stale, completed, early,
                   openAtDeadline, sinkFailed, abandoned>>

\* The future is set to its result or its exception, and the waiter, when
\* one is installed, is told.
JobSet(j, res) ==
    /\ future_to_text[j] = "running"
    /\ future_to_text' = [future_to_text EXCEPT ![j] = res]
    /\ completed' = Append(completed, j)
    /\ finished_futures' = IF waiterOn THEN Append(finished_futures, j)
                                       ELSE finished_futures
    /\ UNCHANGED tvars
    /\ UNCHANGED <<pc, doc, n, submitted, pending, waiterOn, finished,
                   deadline, rows, notices, stale, early, openAtDeadline,
                   sinkFailed, abandoned>>

\* process_text_item_in_threads returns its tuple
JobReturn(j) == JobSet(j, "ok")

\* process_text_item_in_threads raises (the summarizer failed)
JobRaise(j) == JobSet(j, "err")

(***************************************************************************)
(* The clock: TIMEOUT seconds after as_completed computed end_time.        *)
(***************************************************************************)
DrainPcs == {"yield", "wait"}

Tick ==
    /\ deadline = "armed"
    /\ pc \in DrainPcs
    /\ deadline' = "elapsed"
    /\ openAtDeadline' = {j \in 1..n : ~Done(j)}
    /\ UNCHANGED tvars
    /\ UNCHANGED <<pc, doc, n, submitted, future_to_text, pending, waiterOn,
                   finished_futures, finished, rows, notices, stale, completed,
                   early, sinkFailed, abandoned>>

(***************************************************************************)
(* parallel_process_texts_in_threads: the drain loop over as_completed.    *)
(***************************************************************************)
\* as_completed is entered: end_time is computed, the futures already
\* finished are gathered as a set and listed, the others are pending, the
\* waiter is installed.
AsCompleted ==
    /\ pc = "submit"
    /\ submitted = n
    /\ LET fin == {j \in 1..n : Done(j)} IN
        /\ \E p \in Perms(fin) : finished' = p
        /\ early' = fin
        /\ pending' = (1..n) \ fin
    /\ deadline' = "armed"
    /\ waiterOn' = TRUE
    /\ pc' = "yield"
    /\ UNCHANGED tvars
    /\ UNCHANGED <<doc, n, submitted, future_to_text, finished_futures, rows,
                   notices, stale, completed, openAtDeadline, sinkFailed, abandoned>>

\* The future the generator yields next: the last of the list.
Yielded == finished[Len(finished)]

YieldRest == SubSeq(finished, 1, Len(finished) - 1)

\* save_to_csv_incremental appends the row
SaveRow(f) == Append(rows, f)

\* A slip: the row is appended in the except clause as well
WarnRowsAppends(f) == Append(rows, f)

\* The except clause of the loop body: the warning is logged, no row is written
WarnRows(f) == rows

\* future.result() returns and the row is appended
ProcessOk ==
    /\ pc = "yield"
    /\ finished # <<>>
    /\ future_to_text[Yielded] = "ok"
    /\ rows' = SaveRow(Yielded)
    /\ finished' = YieldRest
    /\ pending' = pending \ {Yielded}
    /\ UNCHANGED tvars
    /\ UNCHANGED <<pc, doc, n, submitted, future_to_text, waiterOn,
                   finished_futures, deadline, notices, stale, completed, early,
                   openAtDeadline, sinkFailed, abandoned>>

\* future.result() re-raises the job's exception; "Error processing text"
ProcessJobError ==
    /\ pc = "yield"
    /\ finished # <<>>
    /\ future_to_text[Yielded] = "err"
    /\ rows' = WarnRows(Yielded)
    /\ finished' = YieldRest
    /\ pending' = pending \ {Yielded}
    /\ UNCHANGED tvars
    /\ UNCHANGED <<pc, doc, n, submitted, future_to_text, waiterOn,
                   finished_futures, deadline, notices, stale, completed, early,
                   openAtDeadline, sinkFailed, abandoned>>

\* save_to_csv_incremental raises inside the same try; "Error processing text"
ProcessSinkError ==
    /\ pc = "yield"
    /\ finished # <<>>
    /\ future_to_text[Yielded] = "ok"
    /\ rows' = WarnRows(Yielded)
    /\ sinkFailed' = sinkFailed \cup {Yielded}
    /\ finished' = YieldRest
    /\ pending' = pending \ {Yielded}
    /\ UNCHANGED tvars
    /\ UNCHANGED <<pc, doc, n, submitted, future_to_text, waiterOn,
                   finished_futures, deadline, notices, stale, completed, early,
                   openAtDeadline, abandoned>>

\* while pending: nothing is pending, the generator ends and so does the loop
DrainDone ==
    /\ pc = "yield"
    /\ finished = <<>>
    /\ pending = {}
    /\ pc' = "shutdown"
    /\ waiterOn' = FALSE
    /\ UNCHANGED tvars
    /\ UNCHANGED <<doc, n, submitted, future_to_text, pending, finished_futures,
                   finished, deadline, rows, notices, stale, completed, early,
                   openAtDeadline, sinkFailed, abandoned>>

\* A slip: the timeout is caught inside the loop, which goes on waiting
TimeoutPcKeepsDraining == "wait"

\* wait_timeout < 0: TimeoutError leaves the loop; "Time limit exceeded"
TimeoutPc == "shutdown"

DrainTimeout ==
    /\ pc = "yield"
    /\ finished = <<>>
    /\ pending # {}
    /\ deadline = "elapsed"
    /\ notices' = notices + 1
    /\ pc' = TimeoutPc
    /\ waiterOn' = FALSE
    /\ UNCHANGED tvars
    /\ UNCHANGED <<doc, n, submitted, future_to_text, pending, finished_futures,
                   finished, deadline, rows, stale, completed, early,
                   openAtDeadline, sinkFailed, abandoned>>

\* wait_timeout >= 0: the generator goes to waiter.event.wait(wait_timeout)
DrainWait ==
    /\ pc = "yield"
    /\ finished = <<>>
    /\ pending # {}
    /\ deadline = "armed"
    /\ pc' = "wait"
    /\ UNCHANGED tvars
    /\ UNCHANGED <<doc, n, submitted, future_to_text, pending, waiterOn,
                   finished_futures, finished, deadline, rows, notices, stale,
                   completed, early, openAtDeadline, sinkFailed, abandoned>>

\* A slip: the list is not reversed before it is popped at its end
CollectedNotReversed == finished_futures

\* The list taken from the waiter: reversed, since it is popped at its end
Collected == Reverse(finished_futures)

\* event.wait returns, the event set or the time out; whatever
\* waiter.finished_futures holds by then is taken.
Wake ==
    /\ pc = "wait"
    /\ finished_futures # <<>> \/ deadline = "elapsed"
    /\ finished' = Collected
    /\ finished_futures' = <<>>
    /\ pc' = "yield"
    /\ UNCHANGED tvars
    /\ UNCHANGED <<doc, n, submitted, future_to_text, pending, waiterOn,
                   deadline, rows, notices, stale, completed, early,
                   openAtDeadline, sinkFailed, abandoned>>

(***************************************************************************)
(* Leaving the with block: executor.shutdown(wait=True).                   *)
(***************************************************************************)
\* A slip: shutdown(wait=False), the worker threads are not joined
ShutdownNotJoined == TRUE

\* shutdown joins the worker threads, which end once the queue is empty
ShutdownJoined == Unfinished = {}

Return ==
    /\ pc = "shutdown"
    /\ ShutdownJoined
    /\ pc' = "returned"
    /\ stale' = stale + Cardinality(Unfinished)
    /\ abandoned' = (abandoned \/ (notices > 0 /\ openAtDeadline # {}))
    /\ UNCHANGED tvars
    /\ UNCHANGED <<doc, n, submitted, future_to_text, pending, waiterOn,
                   finished_futures, finished, deadline, rows, notices,
                   completed, early, openAtDeadline, sinkFailed>>

Next ==
    \/ \E k \in 0..MaxSections : NextFile(k)
    \/ AllFilesProcessed
    \/ Submit
    \/ \E j \in Jobs : JobStart(j)
    \/ \E j \in Jobs : JobReturn(j)
    \/ \E j \in Jobs : JobRaise(j)
    \/ Tick
    \/ AsCompleted
    \/ ProcessOk
    \/ ProcessJobError
    \/ ProcessSinkError
    \/ DrainDone
    \/ DrainTimeout
    \/ DrainWait
    \/ Wake
    \/ Return

Spec == Init /\ [][Next]_vars

(***************************************************************************)
(* Text: a str is a sequence of symbols.  A symbol is one character, or a  *)
(* word written as one symbol: "c" climate, "C" CLIMATE, "h" change,       *)
(* "i" insurance, "u" http://, "x" a word of forty letters.                *)
(***************************************************************************)
IsSpace(ch) == ch \in {" ", "\n"}

\* str.lower(), symbol by symbol
Lower(ch) == CASE ch = "A" -> "a"
               [] ch = "C" -> "c"
               [] OTHER -> ch

LowerStr(s) == [i \in 1..Len(s) |-> Lower(s[i])]

\* len() of the characters a symbol stands for
SymLen(ch) == CASE ch = "c" -> 7
                [] ch = "C" -> 7
                [] ch = "h" -> 6
                [] ch = "i" -> 9
                [] ch = "u" -> 7
                [] ch = "x" -> 40
                [] OTHER -> 1

RECURSIVE StrLen(_)
StrLen(s) == IF s = <<>> THEN 0 ELSE SymLen(Head(s)) + StrLen(Tail(s))

\* s[a:b] with 0-based offsets, 0 <= a
Slice(s, a, b) == SubSeq(s, a + 1, b)

RECURSIVE LStrip(_)
LStrip(s) == IF s # <<>> /\ IsSpace(Head(s)) THEN LStrip(Tail(s)) ELSE s

RECURSIVE RStrip(_)
RStrip(s) ==
    IF s # <<>> /\ IsSpace(s[Len(s)]) THEN RStrip(SubSeq(s, 1, Len(s) - 1)) ELSE s

\* str.strip()
Strip(s) == RStrip(LStrip(s))

\* sub in s: sub occurs in s as a contiguous run
Contains(s, sub) ==
    \E p \in 0..(Len(s) - Len(sub)) : Slice(s, p, p + Len(sub)) = sub

\* Offset of the end of the run of non-whitespace symbols that starts at p
RECURSIVE RunEnd(_, _)
RunEnd(s, p) == IF p < Len(s) /\ ~IsSpace(s[p + 1]) THEN RunEnd(s, p + 1) ELSE p

\* re.sub(r'http[s]?://\S+', '', text), scanning from offset p
RECURSIVE RemoveUrls(_, _)
RemoveUrls(s, p) ==
    IF p >= Len(s) THEN <<>>
    ELSE IF s[p + 1] = "u" /\ RunEnd(s, p + 1) > p + 1
         THEN RemoveUrls(s, RunEnd(s, p + 1))
         ELSE <<s[p + 1]>> \o RemoveUrls(s, p + 1)

\* re.sub(r'\s+', ' ', text)
RECURSIVE CollapseSpace(_)
CollapseSpace(s) ==
    IF s = <<>> THEN <<>>
    ELSE IF IsSpace(Head(s))
         THEN <<" ">> \o CollapseSpace(LStrip(s))
         ELSE <<Head(s)>> \o CollapseSpace(Tail(s))

clean_text(text) == Strip(CollapseSpace(RemoveUrls(text, 0)))

StringsUpTo(A, k) == UNION {[1..m -> A] : m \in 0..k}

(***************************************************************************)
(* extract_text_beneath_duplicates.  The metadata of a section, which no   *)
(* property below reads, is left out of the tuple; the offsets and the     *)
(* trimmed span are kept beside it.                                        *)
(***************************************************************************)
\* re.escape(title) then '\n' at offset p of s, letters compared ignoring case
TitleLineAt(s, title, p) ==
    /\ p + Len(title) + 1 <= Len(s)
    /\ LowerStr(Slice(s, p, p + Len(title))) = LowerStr(title)
    /\ s[p + Len(title) + 1] = "\n"

\* Length of the match of (^|\n)title(\n) starting at offset p, 0 if none:
\* ^ holds at offset 0 only
MatchLen(s, title, p) ==
    IF p = 0 /\ TitleLineAt(s, title, 0) THEN Len(title) + 1
    ELSE IF p < Len(s) /\ s[p + 1] = "\n" /\ TitleLineAt(s, title, p + 1)
         THEN Len(title) + 2
         ELSE 0

\* title_pattern.finditer(s): the non-overlapping matches, left to right
RECURSIVE Finditer(_, _, _)
Finditer(s, title, p) ==
    IF p >= Len(s) THEN <<>>
    ELSE IF MatchLen(s, title, p) > 0
         THEN <<[start |-> p, end |-> p + MatchLen(s, title, p)]>>
              \o Finditer(s, title, p + MatchLen(s, title, p))
         ELSE Finditer(s, title, p + 1)

\* next((m.start() for m in title_pattern.finditer(content[start_pos:])), None)
\* with None written -1
NextTitlePos(s, title, start_pos) ==
    LET ms == Finditer(Slice(s, start_pos, Len(s)), title, 0)
    IN IF ms = <<>> THEN -1 ELSE ms[1].start

\* "if next_title_pos": None and 0 are both false
Truthy(next_title_pos) == next_title_pos > 0

EndPos(s, title, start_pos) ==
    IF Truthy(NextTitlePos(s, title, start_pos))
    THEN start_pos + NextTitlePos(s, title, start_pos)
    ELSE Len(s)

\* The tuple appended for match m of the k-th title
SectionOf(s, title, k, m) ==
    LET span == Strip(Slice(s, m.end, EndPos(s, title, m.end)))
    IN [title |-> title,
        text |-> clean_text(span),
        extracted_text |-> span,
        pass |-> k,
        start_pos |-> m.end,
        end_pos |-> EndPos(s, title, m.end)]

SectionsOf(s, title, k) ==
    LET ms == Finditer(s, title, 0)
    IN [i \in 1..Len(ms) |-> SectionOf(s, title, k, ms[i])]

RECURSIVE ExtractFrom(_, _, _)
ExtractFrom(s, ts, k) ==
    IF k > Len(ts) THEN <<>>
    ELSE SectionsOf(s, ts[k], k) \o ExtractFrom(s, ts, k + 1)

extract_text_beneath_duplicates(s, ts) == ExtractFrom(s, ts, 1)

DocChars == {"A", "a", "b", "\n"}

TitleChoices == {<<"A">>, <<"a">>, <<"b">>}

SegInit ==
    /\ DispatcherInit
    /\ tpc = "input"
    /\ content \in StringsUpTo(DocChars, MaxDocLen)
    /\ titles \in StringsUpTo(TitleChoices, MaxTitles)
    /\ extracted_texts = <<>>
    /\ extracted_text = <<>>
    /\ text_data = <<>>
    /\ correlation = [value |-> "none", calls |-> 0]

ExtractSections ==
    /\ tpc = "input"
    /\ extracted_texts' = extract_text_beneath_duplicates(content, titles)
    /\ tpc' = "extracted"
    /\ UNCHANGED <<content, titles, extracted_text, text_data, correlation>>
    /\ UNCHANGED dvars

SpecSeg == SegInit /\ [][ExtractSections]_vars

(***************************************************************************)
(* summarize_text, summarize_climate_insurance_correlation and the job     *)
(* process_text_item_in_threads.  What the summarizer returns is written   *)
(* "summary"; calls counts the chunks handed to it.                        *)
(***************************************************************************)
TooShort == "Text too short to summarize"

NoCorrelation == "No correlation between climate change and insurance found."

summarize_text(text) ==
    IF StrLen(Strip(text)) < MinSummarizeLen
    THEN [value |-> TooShort, calls |-> 0]
    ELSE [value |-> "summary",
          calls |-> (StrLen(Strip(text)) + max_chunk_size - 1) \div max_chunk_size]

IsTerminator(ch) == ch \in {".", "!", "?"}

\* re.split(r'[.!?]', text)
RECURSIVE Split(_)
Split(s) ==
    IF \E i \in 1..Len(s) : IsTerminator(s[i])
    THEN LET i == CHOOSE i \in 1..Len(s) :
                    IsTerminator(s[i]) /\ \A j \in 1..(i - 1) : ~IsTerminator(s[j])
         IN <<SubSeq(s, 1, i - 1)>> \o Split(SubSeq(s, i + 1, Len(s)))
    ELSE <<s>>

ClimateChange == <<"c", " ", "h">>

Insurance == <<"i">>

\* 'climate change' in s.lower() and 'insurance' in s.lower()
HasBothKeywords(sentence) ==
    Contains(LowerStr(sentence), ClimateChange) /\ Contains(LowerStr(sentence), Insurance)

RECURSIVE Join(_)
Join(ss) ==
    IF ss = <<>> THEN <<>>
    ELSE IF Len(ss) = 1 THEN ss[1]
    ELSE ss[1] \o <<" ">> \o Join(Tail(ss))

correlation_sentences(text) ==
    LET kept == SelectSeq(Split(text), HasBothKeywords)
    IN [i \in 1..Len(kept) |-> Strip(kept[i])]

summarize_climate_insurance_correlation(text) ==
    IF correlation_sentences(text) # <<>>
    THEN summarize_text(Join(correlation_sentences(text)))
    ELSE [value |-> NoCorrelation, calls |-> 0]

\* A slip: the job is handed the trimmed span, not its cleaned text
JobTextRaw == extracted_text

\* title, text, metadata = text_data: the text is the tuple's cleaned_text
JobText == text_data

TextChars == {"c", "C", "h", "i", " ", "\n", ".", "u", "x"}

\* The trimmed spans of at most MaxTextLen symbols
RawTexts == {s \in StringsUpTo(TextChars, MaxTextLen) : Strip(s) = s}

CorrInit ==
    /\ DispatcherInit
    /\ tpc = "raw"
    /\ extracted_text \in RawTexts
    /\ content = <<>>
    /\ titles = <<>>
    /\ extracted_texts = <<>>
    /\ text_data = <<>>
    /\ correlation = [value |-> "none", calls |-> 0]

\* extract_text_beneath_duplicates puts clean_text(extracted_text) in the tuple
BuildTuple ==
    /\ tpc = "raw"
    /\ text_data' = clean_text(extracted_text)
    /\ tpc' = "cleaned"
    /\ UNCHANGED <<content, titles, extracted_texts, extracted_text, correlation>>
    /\ UNCHANGED dvars

process_text_item_in_threads ==
    /\ tpc = "cleaned"
    /\ correlation' = summarize_climate_insurance_correlation(JobText)
    /\ tpc' = "done"
    /\ UNCHANGED <<content, titles, extracted_texts, extracted_text, text_data>>
    /\ UNCHANGED dvars

CorrNext == BuildTuple \/ process_text_item_in_threads

SpecCorr == CorrInit /\ [][CorrNext]_vars

(***************************************************************************)
(* Properties of the dispatcher, checked under Spec.                       *)
(***************************************************************************)
Failed == {j \in 1..n : future_to_text[j] = "err"}

Count(j) == Cardinality({i \in DOMAIN rows : rows[i] = j})

\* Position of a future in the order of completion
Rank(j) == CHOOSE i \in DOMAIN completed : completed[i] = j

BeforeDeadline(j) == Done(j) /\ (deadline = "elapsed" => j \notin openAtDeadline)

\* C1 (as stated): the rows appended in a batch never exceed the sections
\* submitted, and once the batch has returned they are strictly fewer
\* whenever a job raised or a job was unfinished when the deadline elapsed.
C1_RowsFewerOnErrorOrDeadline ==
    /\ Len(rows) <= n
    /\ (pc = "returned" /\ (Failed # {} \/ openAtDeadline # {})) => Len(rows) < n

\* C1 (amended): the rows appended in a batch never exceed the sections
\* submitted, and once the batch has returned they are strictly fewer
\* whenever a job raised or the drain loop ended on its timeout.
C1_RowsFewerOnErrorOrTimeout ==
    /\ Len(rows) <= submitted
    /\ (pc = "returned" /\ (Failed # {} \/ notices > 0)) => Len(rows) < n

C1_Witness ==
    /\ pc = "returned"
    /\ n = MaxSections
    /\ Failed # {}
    /\ notices = 1
    /\ Len(rows) = 1

\* C2 (as stated): once the deadline has elapsed, no further row is appended
\* to the sink for that batch.
C2_NoRowAfterDeadline ==
    [][(deadline = "elapsed" /\ doc' = doc) => rows' = rows]_vars

\* C2 (amended): once the drain loop has raised its timeout and the notice is
\* logged, no further row is appended to the sink for that batch, whatever
\* jobs complete afterwards.
C2_NoRowAfterTimeout ==
    [][(notices > 0 /\ doc' = doc) => rows' = rows]_vars

C2_Witness ==
    /\ notices = 1
    /\ \E j \in pending :
        /\ j \in openAtDeadline
        /\ future_to_text[j] = "ok"
        /\ Count(j) = 0
    /\ Len(rows) >= 1

\* C3: a failure of the sink append stops the drain loop and is escalated,
\* it is not handled like a job failure.
C3_SinkFailureEscalates == sinkFailed # {} => pc \notin DrainPcs

\* C4: when a job raises, no row is written for it and every other job that
\* completed successfully before the deadline has exactly one row once the
\* batch has returned.
C4_SiblingsUnaffected ==
    (pc = "returned" /\ Failed # {}) =>
        \A j \in 1..n :
            /\ j \in Failed => Count(j) = 0
            /\ (future_to_text[j] = "ok" /\ BeforeDeadline(j)) => Count(j) = 1

\* C5: once the drain loop has exited, the function returns without waiting
\* for unfinished jobs.
C5_ReturnsWithoutWaiting == pc = "shutdown" => ENABLED Return

\* C6: no job of an earlier document's batch is unfinished while a job of
\* the current document's batch is being submitted, is queued or is running.
C6_OneDocumentAtATime ==
    (pc = "submit" \/ Unfinished # {}) => stale = 0

C6_Witness ==
    /\ doc = 2
    /\ abandoned
    /\ Running # {}
    /\ Queued # {}

Occurrences(s, title) ==
    Cardinality({p \in 0..(Len(s) - 1) :
                    (p = 0 \/ s[p] = "\n") /\ TitleLineAt(s, title, p)})

Carrying(title) ==
    Cardinality({k \in DOMAIN extracted_texts : extracted_texts[k].title = title})

\* C8: every listed title has exactly as many sections carrying it as it has
\* lines of its own in the document.
C8_OneSectionPerOccurrence ==
    tpc = "extracted" =>
        \A i \in DOMAIN titles : Carrying(titles[i]) = Occurrences(content, titles[i])

\* The end the body of a section is said to have: the start of the next
\* occurrence of its title in the suffix, or the end of the document
NextOccurrenceOrEnd(s, title, start_pos) ==
    IF NextTitlePos(s, title, start_pos) = -1
    THEN Len(s)
    ELSE start_pos + NextTitlePos(s, title, start_pos)

\* C9: the body of every section is the trimmed span from its start to the
\* next occurrence of its title in the suffix, or to the end of the document,
\* and the spans of successive occurrences of one title do not overlap.
C9_BodyEndsAtNextOccurrence ==
    tpc = "extracted" =>
        /\ \A k \in DOMAIN extracted_texts :
            LET sec == extracted_texts[k]
            IN sec.extracted_text =
                Strip(Slice(content, sec.start_pos,
                            NextOccurrenceOrEnd(content, sec.title, sec.start_pos)))
        /\ \A k \in DOMAIN extracted_texts :
            (k < Len(extracted_texts) /\ extracted_texts[k + 1].pass = extracted_texts[k].pass)
                => extracted_texts[k].end_pos <= extracted_texts[k + 1].start_pos

(***************************************************************************)
(* Properties of the correlation summary, checked under SpecCorr.          *)
(***************************************************************************)
\* Both keywords occur in s with no sentence terminator from the start of
\* the one to the end of the other
SameSentence(s) ==
    \E p \in 0..(Len(s) - Len(ClimateChange)), q \in 0..(Len(s) - Len(Insurance)) :
        /\ LowerStr(Slice(s, p, p + Len(ClimateChange))) = ClimateChange
        /\ LowerStr(Slice(s, q, q + Len(Insurance))) = Insurance
        /\ LET lo == IF p < q THEN p ELSE q
               hi == IF p + Len(ClimateChange) > q + Len(Insurance)
                     THEN p + Len(ClimateChange) ELSE q + Len(Insurance)
           IN \A i \in (lo + 1)..hi : ~IsTerminator(s[i])

\* C10 (as stated): the correlation summary is the sentinel, with no call to
\* the summarizer, exactly when no sentence of the section's raw text holds
\* both keywords.
C10_SentinelFromRawText ==
    tpc = "done" =>
        /\ correlation.value = NoCorrelation <=> ~SameSentence(extracted_text)
        /\ correlation.value = NoCorrelation => correlation.calls = 0

\* C10 (amended): the correlation summary is the sentinel, with no call to
\* the summarizer, exactly when no sentence of the section's normalized text
\* (clean_text of the raw span) holds both keywords.
C10_SentinelFromNormalizedText ==
    tpc = "done" =>
        /\ correlation.value = NoCorrelation <=> ~SameSentence(text_data)
        /\ correlation.value = NoCorrelation => correlation.calls = 0

C10_Witness ==
    /\ tpc = "done"
    /\ text_data # extracted_text
    /\ Contains(LowerStr(text_data), ClimateChange)
    /\ Contains(LowerStr(text_data), Insurance)
    /\ correlation.value = NoCorrelation

=============================================================================
